---------------------------- MODULE Spec2Model ----------------------------
(***************************************************************************)
(* A model of fractalv (src/main.rs): an escape-time fractal viewer.       *)
(*                                                                         *)
(* The program keeps one FractalContext (dimensions, pan, scale, updated,  *)
(* pixels), polls a window once per event-loop iteration, mutates the      *)
(* context and re-renders the whole frame with one parallel task per       *)
(* pixel whenever `updated` is set.                                        *)
(*                                                                         *)
(* Numbers.  f64 is modelled as a binary floating-point format with the    *)
(* IEEE-754 rules of f64 (round to nearest, ties to even; gradual          *)
(* underflow; overflow to infinity; NaN) but a narrower significand and    *)
(* exponent, so that TLC can enumerate it.  A finite value is the integer  *)
(* number of units 2^-UnitShift it holds; +inf, -inf and NaN are the       *)
(* codes PosInf, NegInf and NaN.  The sign of a zero is not kept: no       *)
(* operation of the program divides by a zero or otherwise observes it.    *)
(* The window is a few pixels wide instead of 640 x 360.                   *)
(***************************************************************************)
EXTENDS Integers, Sequences, FiniteSets

(***************************************************************************)
(* Bounds of the model.                                                    *)
(***************************************************************************)
\* const WIDTH: usize = 640 and const HEIGHT: usize = 360, scaled down: the
\* initial window size, and the largest size the window is resized to.
WIDTH == 3
HEIGHT == 2
\* Input events (a key handler firing, a new window size) in one run of the
\* event loop.
MaxEvents == 2
\* The iteration bound main gives a fractal named without one: 30 in the
\* code, scaled down like the window.
DefaultIterations == 3
\* Largest iteration bound of the kernel when one task is followed step by step.
MaxIterations == 5
\* Largest number of pixels of a render pass followed task by task.
MaxTasks == 6

(***************************************************************************)
(* The floating-point format standing for f64.                             *)
(***************************************************************************)
\* Significand bits, the implicit one included (f64: 53).
MantBits == 5
\* 1.0 is 2^UnitShift units: the smallest subnormal is 2^-UnitShift (f64: 1074).
UnitShift == 7
\* Binades of normal numbers (f64: 2046).
Binades == 11

RECURSIVE Pow2(_)
Pow2(n) == IF n = 0 THEN 1 ELSE 2 * Pow2(n - 1)

\* The largest finite value (f64::MAX), in units.
MaxFinite == (Pow2(MantBits) - 1) * Pow2(Binades - 1)
PosInf == Pow2(MantBits) * Pow2(Binades - 1)
NegInf == 0 - PosInf
NaN == 2 * PosInf

IsNaN(a) == a = NaN
IsInf(a) == a = PosInf \/ a = NegInf
Abs(n) == IF n < 0 THEN 0 - n ELSE n
Sign(n) == IF n < 0 THEN 0 - 1 ELSE 1

\* 2^MantBits, and 1.0 in units.
MantRange == Pow2(MantBits)
UnitValue == Pow2(UnitShift)
\* The powers of two a quantum can be.
Quanta == [j \in 0..(Binades + UnitShift + 2) |-> Pow2(j)]

\* The spacing of the format's values around the integer part q: 1 while q
\* fits MantBits bits, else the power of two that cuts q to MantBits bits.
Quantum(q) ==
    IF q < MantRange THEN 1
    ELSE Quanta[CHOOSE j \in DOMAIN Quanta :
                    j > 0 /\ q < MantRange * Quanta[j] /\ q >= MantRange * Quanta[j - 1]]

\* The magnitude n/d (in units, n >= 0, d > 0) rounded to the nearest value of
\* the format, ties to even; PosInf when the rounded value exceeds MaxFinite.
FRound(n, d) ==
    LET D == d * Quantum(n \div d)
        fl == n \div D
        r == n % D
        m == IF 2 * r > D \/ (2 * r = D /\ fl % 2 = 1) THEN fl + 1 ELSE fl
        k == m * Quantum(n \div d)
    IN IF k > MaxFinite THEN PosInf ELSE k

\* The same for a signed numerator.
FRoundS(n, d) == Sign(n) * FRound(Abs(n), d)

\* `n as f64` for an integer n, and the literal num/den (1.1 is Lit(11, 10)).
FromInt(n) == FRoundS(n * UnitValue, 1)
Lit(num, den) == FRoundS(num * UnitValue, den)

FNeg(a) == IF IsNaN(a) THEN NaN ELSE 0 - a
FAbs(a) == IF IsNaN(a) THEN NaN ELSE Abs(a)

FAdd(a, b) ==
    IF IsNaN(a) \/ IsNaN(b) THEN NaN
    ELSE IF IsInf(a) THEN (IF IsInf(b) /\ a # b THEN NaN ELSE a)
    ELSE IF IsInf(b) THEN b
    ELSE FRoundS(a + b, 1)

FSub(a, b) == FAdd(a, FNeg(b))

FMul(a, b) ==
    IF IsNaN(a) \/ IsNaN(b) THEN NaN
    ELSE IF IsInf(a) \/ IsInf(b)
         THEN (IF a = 0 \/ b = 0 THEN NaN ELSE Sign(a) * Sign(b) * PosInf)
    ELSE Sign(a) * Sign(b) * FRound(Abs(a) * Abs(b), UnitValue)

FDiv(a, b) ==
    IF IsNaN(a) \/ IsNaN(b) THEN NaN
    ELSE IF IsInf(a) THEN (IF IsInf(b) THEN NaN ELSE Sign(a) * Sign(b) * PosInf)
    ELSE IF IsInf(b) THEN 0
    ELSE IF b = 0 THEN (IF a = 0 THEN NaN ELSE Sign(a) * PosInf)
    ELSE Sign(a) * Sign(b) * FRound(Abs(a) * UnitValue, Abs(b))

\* a > b and a < b on f64: false when either side is NaN.
FGt(a, b) == ~IsNaN(a) /\ ~IsNaN(b) /\ a > b
FLt(a, b) == FGt(b, a)


(***************************************************************************)
(* The literals of the program.                                            *)
(***************************************************************************)
ZoomFactor == Lit(11, 10)
InitialScale == FromInt(100)
EscapeBound == FromInt(4)
One == FromInt(1)
Zero == FromInt(0)
Red == 255 * 65536
GreyUnit == 65536 + 256 + 1

VARIABLES
    pc,          \* where main is: "start", "configured", "loop", "dispatch",
                 \* "kernel", "present", "exited", "panicked"
    fract,       \* the Fractal value main builds from the arguments
    window,      \* "none" until Window::new succeeds, then "open"
    dimensions,  \* ctx.dimensions
    pan,         \* ctx.pan
    scale,       \* ctx.scale
    updated,     \* ctx.updated
    pixels,      \* ctx.pixels; pixels[i + 1] is the code's pixels[i]
    presented,   \* the last call of update_with_buffer: buffer length, width, height
    events,      \* input events handled so far
    iter,        \* the current loop iteration: did its input handling assign the
                 \* view, was updated set when it began, calls of render so far
    pending,     \* one render pass: the indices whose task has not run yet
    writes,      \* one render pass: how many times each index was written
    kern         \* one per-pixel task: its locals (c, z, escaped, iterations done)

vars == <<pc, fract, window, dimensions, pan, scale, updated, pixels, presented,
          events, iter, pending, writes, kern>>
ctxVars == <<dimensions, pan, scale, updated, pixels>>
passVars == <<pending, writes>>

(***************************************************************************)
(* Fractal::mandelbrot and Fractal::burning_ship: one pixel.               *)
(***************************************************************************)
\* The point c of pixel i.
PixelC(i, dims, p, s) ==
    LET x == FSub(FromInt(i % dims[1]), FDiv(FromInt(dims[1]), FromInt(2)))
        y == FSub(FromInt(i \div dims[1]), FDiv(FromInt(dims[2]), FromInt(2)))
    IN <<FAdd(FDiv(x, s), p[1]), FAdd(FDiv(y, s), p[2])>>

\* Complex<f64> multiplication, addition and norm_sqr.
CMul(a, b) == <<FSub(FMul(a[1], b[1]), FMul(a[2], b[2])),
                FAdd(FMul(a[1], b[2]), FMul(a[2], b[1]))>>
CAdd(a, b) == <<FAdd(a[1], b[1]), FAdd(a[2], b[2])>>
NormSqr(z) == FAdd(FMul(z[1], z[1]), FMul(z[2], z[2]))

\* The body of the loop: the next z.
MandelbrotZ(z, c) == CAdd(CMul(z, z), c)
BurningShipZ(z, c) ==
    LET abs_z == <<FAbs(z[1]), FAbs(z[2])>> IN CAdd(CMul(abs_z, abs_z), c)
NextZ(kind, z, c) ==
    IF kind = "Mandelbrot" THEN MandelbrotZ(z, c) ELSE BurningShipZ(z, c)

\* A fault of CountEscape: the counter steps by two.
CountEscapeTwice(escaped, z) == IF FGt(NormSqr(z), EscapeBound) THEN escaped + 2 ELSE escaped

\* if z.norm_sqr() > 4. {escaped += 1;}
Escapes(z) == FGt(NormSqr(z), EscapeBound)
CountEscape(escaped, z) == IF Escapes(z) THEN escaped + 1 ELSE escaped

\* The locals of one task before the loop, and after one more iteration of it.
\* `first` is not in the code: the 1-based number of the first iteration whose
\* z had norm_sqr() > 4, 0 while there was none.
KernelStart(c) == [c |-> c, z |-> <<Zero, Zero>>, escaped |-> 0, n |-> 0, first |-> 0,
                   stored |-> FALSE, value |-> 0]
KernelStep(kind, k) ==
    LET nz == NextZ(kind, k.z, k.c)
    IN [k EXCEPT !.z = nz,
                 !.escaped = CountEscape(k.escaped, nz),
                 !.n = k.n + 1,
                 !.first = IF k.first = 0 /\ Escapes(nz) THEN k.n + 1 ELSE k.first]

\* for _ in 0..maxiter { ... }: the locals after the remaining iterations.
\* (The one-element sets only make TLC compute the step's value before it
\* recurses.)
RECURSIVE KernelLoop(_, _, _)
KernelLoop(kind, k, left) ==
    IF left = 0 THEN k
    ELSE CHOOSE r \in {KernelLoop(kind, next, left - 1) : next \in {KernelStep(kind, k)}} : TRUE

EscapedAfter(kind, c, maxiter) == KernelLoop(kind, KernelStart(c), maxiter).escaped

\* The integer part of the square root of n.
ISqrt(n) == CHOOSE t \in 0..n : t * t <= n /\ (t + 1) * (t + 1) > n

\* ((escaped as f64 / maxiter as f64).sqrt() * 255.) as u32.  For maxiter = 0
\* the quotient is 0/0 = NaN, and NaN as u32 is 0.  Otherwise the f64 result is
\* the exact floor of 255 * sqrt(escaped / maxiter), which is what this
\* computes (the two agree for every escaped <= maxiter <= 64).
Intensity(escaped, maxiter) ==
    IF maxiter = 0 THEN 0 ELSE ISqrt((255 * 255 * escaped) \div maxiter)

\* ... as u32 * 0x010101 (no wrap-around is modelled: the product of an
\* intensity below 32640 stays below 2^31).
Packed(escaped, maxiter) == Intensity(escaped, maxiter) * GreyUnit

\* What the task of pixel i stores at index i.
PixelValue(f, i, dims, p, s) ==
    Packed(EscapedAfter(f.kind, PixelC(i, dims, p, s), f.max), f.max)

(***************************************************************************)
(* Fractal::render.                                                        *)
(***************************************************************************)
\* A fault of Resized: the buffer shrinks and never grows.
ResizedShrinkOnly(buf, n) ==
    [i \in 1..(IF n < Len(buf) THEN n ELSE Len(buf)) |-> buf[i]]

\* ctx.pixels.resize(n, 0)
Resized(buf, n) == [i \in 1..n |-> IF i <= Len(buf) THEN buf[i] ELSE 0]

\* (0..ctx.pixels.len()).into_par_iter().for_each(...), all tasks done
KernelPass(f, buf, dims, p, s) ==
    [i \in 1..Len(buf) |-> PixelValue(f, i - 1, dims, p, s)]

CenterIndex(dims) == (dims[1] \div 2) + (dims[2] \div 2) * dims[1]

\* The buffer a render of (dimensions, pan, scale) is specified to produce.
ExpectedBuffer(f, dims, p, s) ==
    [i \in 1..(dims[1] * dims[2]) |->
        IF i - 1 = CenterIndex(dims) THEN Red ELSE PixelValue(f, i - 1, dims, p, s)]


(***************************************************************************)
(* main: the arguments.                                                    *)
(***************************************************************************)
\* The command lines tried, without args[0]: up to three arguments, the
\* second one (the iteration count) a string of characters.
FractalArgs == {"mandelbrot", "burning-ship", "julia"}
IterationArgs == {<<>>, <<"0">>, <<"2">>, <<"+", "2">>, <<"0", "2">>, <<"2", "x">>, <<"-", "2">>}
ArgLists ==
    {<<>>} \cup {<<k>> : k \in FractalArgs}
           \cup {<<k, n>> : k \in FractalArgs, n \in IterationArgs}
           \cup {<<k, n, n>> : k \in {"mandelbrot"}, n \in {<<"2">>}}

DigitValue(ch) ==
    CASE ch = "0" -> 0 [] ch = "1" -> 1 [] ch = "2" -> 2 [] ch = "3" -> 3
      [] ch = "4" -> 4 [] ch = "5" -> 5 [] ch = "6" -> 6 [] ch = "7" -> 7
      [] ch = "8" -> 8 [] ch = "9" -> 9 [] OTHER -> 0 - 1

RECURSIVE DigitsValue(_, _)
DigitsValue(str, acc) ==
    IF str = <<>> THEN acc
    ELSE IF DigitValue(Head(str)) < 0 THEN 0 - 1
    ELSE DigitsValue(Tail(str), 10 * acc + DigitValue(Head(str)))

\* args[2].parse::<usize>(): the value, or -1 for Err.  usize takes an
\* optional leading "+" and then at least one decimal digit.
ParseUsize(str) ==
    LET digits == IF str # <<>> /\ Head(str) = "+" THEN Tail(str) ELSE str
    IN IF digits = <<>> THEN 0 - 1 ELSE DigitsValue(digits, 0)

NoFractal == [kind |-> "none", max |-> 0]

\* match args[1].as_str() { ... } with the iteration count n
FractalOf(name, n) ==
    CASE name = "mandelbrot" -> [kind |-> "Mandelbrot", max |-> n]
      [] name = "burning-ship" -> [kind |-> "BurningShip", max |-> n]
      [] OTHER -> NoFractal

\* let fract = match args.len() { ... }: "run" with the Fractal built,
\* "usage" when main prints the usage and returns, "panic" when unwrap fails.
Configure(a) ==
    CASE Len(a) = 1 ->
            IF FractalOf(a[1], DefaultIterations).kind = "none"
            THEN [outcome |-> "usage", fract |-> NoFractal]
            ELSE [outcome |-> "run", fract |-> FractalOf(a[1], DefaultIterations)]
      [] Len(a) = 2 ->
            IF ParseUsize(a[2]) < 0 THEN [outcome |-> "panic", fract |-> NoFractal]
            ELSE IF FractalOf(a[1], ParseUsize(a[2])).kind = "none"
            THEN [outcome |-> "usage", fract |-> NoFractal]
            ELSE [outcome |-> "run", fract |-> FractalOf(a[1], ParseUsize(a[2]))]
      [] OTHER -> [outcome |-> "usage", fract |-> NoFractal]

\* Lines 100-135.
ParseArgs ==
    /\ pc = "start"
    /\ \E a \in ArgLists :
          /\ fract' = Configure(a).fract
          /\ pc' = CASE Configure(a).outcome = "run" -> "configured"
                     [] Configure(a).outcome = "usage" -> "exited"
                     [] OTHER -> "panicked"
    /\ UNCHANGED <<window, ctxVars, presented, events, iter, passVars, kern>>

(***************************************************************************)
(* FractalContext::new and Window::new.                                    *)
(***************************************************************************)
NoPresentation == [len |-> 0, width |-> 0, height |-> 0]
NoIteration == [mutated |-> FALSE, dirtyIn |-> FALSE, renders |-> 0]
NoKernel == KernelStart(<<Zero, Zero>>)

\* FractalContext::new()
NewDimensions == <<WIDTH, HEIGHT>>
NewPan == <<Zero, Zero>>
NewScale == InitialScale
NewUpdated == TRUE
NewPixels == [i \in 1..(WIDTH * HEIGHT) |-> 0]

\* Lines 137-151, the window created.
CreateWindow ==
    /\ pc = "configured"
    /\ dimensions' = NewDimensions
    /\ pan' = NewPan
    /\ scale' = NewScale
    /\ updated' = NewUpdated
    /\ pixels' = NewPixels
    /\ window' = "open"
    /\ pc' = "loop"
    /\ UNCHANGED <<fract, presented, events, iter, passVars, kern>>

\* Lines 137-149, Window::new returning Err: expect panics.
CreateWindowFails ==
    /\ pc = "configured"
    /\ dimensions' = NewDimensions
    /\ pan' = NewPan
    /\ scale' = NewScale
    /\ updated' = NewUpdated
    /\ pixels' = NewPixels
    /\ pc' = "panicked"
    /\ UNCHANGED <<fract, window, presented, events, iter, passVars, kern>>

(***************************************************************************)
(* The event loop: input handling, lines 153-188.                          *)
(***************************************************************************)
Keys == {"I", "O", "Up", "Down", "Left", "Right"}
\* What window.get_size() returns.
WindowSizes == (0..WIDTH) \X (0..HEIGHT)

\* ctx.scale *= 1.1 and ctx.scale /= 1.1
ZoomIn(s) == FMul(s, ZoomFactor)
ZoomOut(s) == FDiv(s, ZoomFactor)
\* ctx.pan.N -= 1. / ctx.scale and ctx.pan.N += 1. / ctx.scale
PanBack(p, s) == FSub(p, FDiv(One, s))
PanForth(p, s) == FAdd(p, FDiv(One, s))

\* The six key handlers in the order of the code, on the keys that are down.
ScaleAfter(s, keys) ==
    LET s1 == IF "I" \in keys THEN ZoomIn(s) ELSE s
    IN IF "O" \in keys THEN ZoomOut(s1) ELSE s1
PanAfter(p, s, keys) ==
    LET y1 == IF "Up" \in keys THEN PanBack(p[2], s) ELSE p[2]
        y2 == IF "Down" \in keys THEN PanForth(y1, s) ELSE y1
        x1 == IF "Left" \in keys THEN PanBack(p[1], s) ELSE p[1]
        x2 == IF "Right" \in keys THEN PanForth(x1, s) ELSE x1
    IN <<x2, y2>>
\* Faults of UpdatedAfter: the resize handler, or the pan handlers, do not set
\* ctx.updated.
UpdatedAfterNoResize(u, size, keys) == u \/ keys # {}
UpdatedAfterNoPan(u, size, keys) == u \/ size # dimensions \/ keys \cap {"I", "O"} # {}

\* Whether any of the seven `if` bodies runs: each sets ctx.updated.
Mutates(size, keys) == size # dimensions \/ keys # {}
UpdatedAfter(u, size, keys) == u \/ Mutates(size, keys)

\* The input events of one pass: the keys down, and a new window size.
EventsOf(size, keys) == Cardinality(keys) + (IF size # dimensions THEN 1 ELSE 0)

\* One pass over lines 155-188 with the window reporting `size` and `keys`.
HandleInputWith(size, keys) ==
    /\ pc = "loop"
    /\ events + EventsOf(size, keys) <= MaxEvents
    /\ dimensions' = size
    /\ scale' = ScaleAfter(scale, keys)
    /\ pan' = PanAfter(pan, ScaleAfter(scale, keys), keys)
    /\ updated' = UpdatedAfter(updated, size, keys)
    /\ events' = events + EventsOf(size, keys)
    /\ iter' = [mutated |-> Mutates(size, keys), dirtyIn |-> updated, renders |-> 0]
    /\ pc' = "dispatch"
    /\ UNCHANGED <<fract, window, pixels, presented, passVars, kern>>

HandleInput == \E size \in WindowSizes, keys \in SUBSET Keys : HandleInputWith(size, keys)

\* Line 153: the window was closed, or Escape is down.
Exit ==
    /\ pc = "loop"
    /\ pc' = "exited"
    /\ UNCHANGED <<fract, window, ctxVars, presented, events, iter, passVars, kern>>

(***************************************************************************)
(* The event loop: render and presentation, lines 190-197.                 *)
(***************************************************************************)
\* Fractal::render up to, and without, the write of the centre pixel.
Rendered(f, buf, dims, p, s) == KernelPass(f, Resized(buf, dims[1] * dims[2]), dims, p, s)
\* ctx.pixels[...] = 0xFF0000 indexes inside the buffer (it panics otherwise).
CenterInBounds(buf, dims) == CenterIndex(dims) < Len(buf)
WithCenter(buf, dims) == [buf EXCEPT ![CenterIndex(dims) + 1] = Red]
\* A fault of UpdatedAfterRender: render leaves ctx.updated alone.
UpdatedKeptByRender(u) == u

\* ctx.updated = false, the last statement of render
UpdatedAfterRender(u) == FALSE

\* Lines 190-191: fract.render(&mut ctx), as one step.
Render ==
    /\ pc = "dispatch"
    /\ updated
    /\ LET buf == Rendered(fract, pixels, dimensions, pan, scale)
       IN IF CenterInBounds(buf, dimensions)
          THEN /\ pixels' = WithCenter(buf, dimensions)
               /\ updated' = UpdatedAfterRender(updated)
               /\ pc' = "present"
          ELSE /\ pixels' = buf
               /\ updated' = updated
               /\ pc' = "panicked"
    /\ iter' = [iter EXCEPT !.renders = @ + 1]
    /\ UNCHANGED <<fract, window, dimensions, pan, scale, presented, events, passVars, kern>>

\* What main passes to update_with_buffer.
Presentation(buf, dims) == [len |-> Len(buf), width |-> dims[1], height |-> dims[2]]

\* Lines 192-194.
UpdateWithBuffer ==
    /\ pc = "present"
    /\ presented' = Presentation(pixels, dimensions)
    /\ pc' = "loop"
    /\ UNCHANGED <<fract, window, ctxVars, events, iter, passVars, kern>>

\* Lines 195-197.
Update ==
    /\ pc = "dispatch"
    /\ ~updated
    /\ pc' = "loop"
    /\ UNCHANGED <<fract, window, ctxVars, presented, events, iter, passVars, kern>>

Init ==
    /\ pc = "start"
    /\ fract = NoFractal
    /\ window = "none"
    /\ dimensions = <<0, 0>>
    /\ pan = <<Zero, Zero>>
    /\ scale = Zero
    /\ updated = FALSE
    /\ pixels = <<>>
    /\ presented = NoPresentation
    /\ events = 0
    /\ iter = NoIteration
    /\ pending = {}
    /\ writes = <<>>
    /\ kern = NoKernel

Next ==
    \/ ParseArgs
    \/ CreateWindow
    \/ CreateWindowFails
    \/ HandleInput
    \/ Exit
    \/ Render
    \/ UpdateWithBuffer
    \/ Update

Spec == Init /\ [][Next]_vars


(***************************************************************************)
(* The zoom handlers on their own: lines 160-168 with the key down, from   *)
(* the context FractalContext::new builds, over the whole range of scale.  *)
(***************************************************************************)
\* Lines 160-163, Key::I down.
KeyI ==
    /\ pc = "loop"
    /\ scale' = ZoomIn(scale)
    /\ updated' = TRUE
    /\ UNCHANGED <<pc, fract, window, dimensions, pan, pixels, presented, events, iter,
                   passVars, kern>>

\* Lines 165-168, Key::O down.
KeyO ==
    /\ pc = "loop"
    /\ scale' = ZoomOut(scale)
    /\ updated' = TRUE
    /\ UNCHANGED <<pc, fract, window, dimensions, pan, pixels, presented, events, iter,
                   passVars, kern>>

InitView ==
    /\ pc = "loop"
    /\ fract \in {FractalOf(k, DefaultIterations) : k \in {"mandelbrot", "burning-ship"}}
    /\ window = "open"
    /\ dimensions = NewDimensions
    /\ pan = NewPan
    /\ scale = NewScale
    /\ updated = NewUpdated
    /\ pixels = NewPixels
    /\ presented = NoPresentation
    /\ events = 0
    /\ iter = NoIteration
    /\ pending = {}
    /\ writes = <<>>
    /\ kern = NoKernel

NextView == KeyI \/ KeyO

SpecView == InitView /\ [][NextView]_vars


(***************************************************************************)
(* Views the event loop reaches, for the render pass and the kernel on     *)
(* their own.                                                              *)
(***************************************************************************)
\* Every scale some sequence of zoom handlers reaches from the initial one.
RECURSIVE ScaleClosure(_)
ScaleClosure(S) ==
    LET T == S \cup {ZoomIn(s) : s \in S} \cup {ZoomOut(s) : s \in S}
    IN IF T = S THEN S ELSE ScaleClosure(T)
ReachableScales == ScaleClosure({NewScale})

\* The pans one pan handler reaches from the initial one at scale s.
PansAt(s) == {NewPan, <<PanForth(Zero, s), Zero>>, <<Zero, PanBack(Zero, s)>>}

(***************************************************************************)
(* One render pass, task by task: Fractal::render with the parallel loop   *)
(* of mandelbrot / burning_ship as one step per task, in any order.        *)
(***************************************************************************)
\* Lines 39-43, 56: the buffer resized and one task per index spawned.
RenderBegin ==
    /\ pc = "dispatch"
    /\ updated
    /\ pixels' = Resized(pixels, dimensions[1] * dimensions[2])
    /\ pending' = 0..(dimensions[1] * dimensions[2] - 1)
    /\ writes' = [i \in 1..(dimensions[1] * dimensions[2]) |-> 0]
    /\ iter' = [iter EXCEPT !.renders = @ + 1]
    /\ pc' = "kernel"
    /\ UNCHANGED <<fract, window, dimensions, pan, scale, updated, presented, events, kern>>

\* A fault of TaskTarget: the tasks of pixels 0 and 1 write the same index.
TaskTargetShifted(i) == IF i > 0 THEN i - 1 ELSE 0

\* The index the task of pixel i writes.
TaskTarget(i) == i

\* Lines 56-73 / 77-95: the task of pixel i runs, and stores its pixel.
Task(i) ==
    /\ pc = "kernel"
    /\ i \in pending
    /\ pixels' = [pixels EXCEPT ![TaskTarget(i) + 1] = PixelValue(fract, i, dimensions, pan, scale)]
    /\ writes' = [writes EXCEPT ![TaskTarget(i) + 1] = @ + 1]
    /\ pending' = pending \ {i}
    /\ UNCHANGED <<pc, fract, window, dimensions, pan, scale, updated, presented, events,
                   iter, kern>>

RunTask == \E i \in pending : Task(i)

\* Lines 50-52, after the parallel loop has joined.
RenderJoin ==
    /\ pc = "kernel"
    /\ pending = {}
    /\ IF CenterInBounds(pixels, dimensions)
       THEN /\ pixels' = WithCenter(pixels, dimensions)
            /\ updated' = UpdatedAfterRender(updated)
            /\ pc' = "present"
       ELSE /\ pixels' = pixels
            /\ updated' = updated
            /\ pc' = "panicked"
    /\ UNCHANGED <<fract, window, dimensions, pan, scale, presented, events, iter,
                   passVars, kern>>

ParScales == {s \in ReachableScales : s = One \/ s = Lit(1, 2)}
ParSizes == {d \in WindowSizes : d[1] * d[2] <= MaxTasks}
\* The sizes of the frame rendered before this one.
ParOldSizes == {NewDimensions, <<1, 1>>}

\* The loop is about to render; the buffer holds a frame it rendered before,
\* of the same pan and scale and of some earlier window size.
InitPar ==
    /\ pc = "dispatch"
    /\ fract \in {FractalOf(k, DefaultIterations) : k \in {"mandelbrot", "burning-ship"}}
    /\ window = "open"
    /\ dimensions \in ParSizes
    /\ scale \in ParScales
    /\ pan \in PansAt(scale)
    /\ updated = TRUE
    /\ \E old \in ParOldSizes : pixels = ExpectedBuffer(fract, old, pan, scale)
    /\ presented = NoPresentation
    /\ events = 0
    /\ iter = [mutated |-> TRUE, dirtyIn |-> FALSE, renders |-> 0]
    /\ pending = {}
    /\ writes = <<>>
    /\ kern = NoKernel

NextPar == RenderBegin \/ RunTask \/ RenderJoin

SpecPar == InitPar /\ [][NextPar]_vars

(***************************************************************************)
(* One task, iteration by iteration: the closure of mandelbrot /           *)
(* burning_ship for one pixel.                                             *)
(***************************************************************************)
\* Lines 63-66: one iteration of the loop of mandelbrot.
MandelbrotIteration ==
    /\ pc = "kernel"
    /\ fract.kind = "Mandelbrot"
    /\ ~kern.stored
    /\ kern.n < fract.max
    /\ kern' = KernelStep("Mandelbrot", kern)
    /\ UNCHANGED <<pc, fract, window, ctxVars, presented, events, iter, passVars>>

\* Lines 84-88: one iteration of the loop of burning_ship.
BurningShipIteration ==
    /\ pc = "kernel"
    /\ fract.kind = "BurningShip"
    /\ ~kern.stored
    /\ kern.n < fract.max
    /\ kern' = KernelStep("BurningShip", kern)
    /\ UNCHANGED <<pc, fract, window, ctxVars, presented, events, iter, passVars>>

\* Lines 68-72 / 90-94: the loop is over, the pixel is stored.
StorePixel ==
    /\ pc = "kernel"
    /\ ~kern.stored
    /\ kern.n = fract.max
    /\ \E i \in pending :
          /\ pixels' = [pixels EXCEPT ![i + 1] = Packed(kern.escaped, fract.max)]
          /\ writes' = [writes EXCEPT ![i + 1] = @ + 1]
          /\ pending' = pending \ {i}
          /\ kern' = [kern EXCEPT !.stored = TRUE, !.value = Packed(kern.escaped, fract.max)]
    /\ UNCHANGED <<pc, fract, window, dimensions, pan, scale, updated, presented, events, iter>>

KernelScales ==
    {s \in ReachableScales : (s >= Lit(1, 4) /\ s <= FromInt(2)) \/ s = NewScale}
KernelFractals == {[kind |-> k, max |-> n] : k \in {"Mandelbrot", "BurningShip"},
                                             n \in 0..MaxIterations}

\* The task of one pixel of the initial window is about to enter its loop.
InitKernel ==
    /\ pc = "kernel"
    /\ fract \in KernelFractals
    /\ window = "open"
    /\ dimensions = NewDimensions
    /\ scale \in KernelScales
    /\ pan \in PansAt(scale)
    /\ updated = TRUE
    /\ pixels = Resized(<<>>, dimensions[1] * dimensions[2])
    /\ presented = NoPresentation
    /\ events = 0
    /\ iter = [mutated |-> TRUE, dirtyIn |-> FALSE, renders |-> 1]
    /\ \E i \in 0..(dimensions[1] * dimensions[2] - 1) :
          /\ pending = {i}
          /\ kern = KernelStart(PixelC(i, dimensions, pan, scale))
    /\ writes = [i \in 1..(dimensions[1] * dimensions[2]) |-> 0]

NextKernel == MandelbrotIteration \/ BurningShipIteration \/ StorePixel

SpecKernel == InitKernel /\ [][NextKernel]_vars


(***************************************************************************)
(* The claims.                                                             *)
(***************************************************************************)
View == <<dimensions, pan, scale>>

\* C1: whenever the context exists and `updated` is false, in particular at
\* every iteration boundary of the event loop, the pixel buffer is exactly the
\* buffer a render of the current (dimensions, pan, scale) produces.
DirtyOrCurrent ==
    (window = "open" /\ ~updated) =>
        pixels = ExpectedBuffer(fract, dimensions, pan, scale)

\* C1 witness: an iteration boundary after a resize and a zoom, the flag clear.
DirtyOrCurrentWitness ==
    /\ pc = "loop"
    /\ ~updated
    /\ dimensions # NewDimensions
    /\ scale # NewScale
    /\ pixels = ExpectedBuffer(fract, dimensions, pan, scale)

\* C2: in one render pass every index is written by exactly one task, a task
\* that has run has left at its own index the value that depends only on the
\* index, the view and the fractal, and so the buffer after the pass is the
\* same under every order of the tasks.
RenderDeterministic ==
    /\ pc = "kernel" =>
          \A i \in 0..(Len(pixels) - 1) :
             /\ writes[i + 1] = (IF i \in pending THEN 0 ELSE 1)
             /\ i \notin pending =>
                   pixels[i + 1] = PixelValue(fract, i, dimensions, pan, scale)
    /\ pc = "present" =>
          /\ \A i \in 1..Len(pixels) : writes[i] = 1
          /\ pixels = ExpectedBuffer(fract, dimensions, pan, scale)

\* C2 witness: a pass of the largest frame has joined, and part of the frame
\* escaped (a pixel that is neither black nor the red centre).
RenderDeterministicWitness ==
    /\ pc = "present"
    /\ Len(pixels) = MaxTasks
    /\ \E i \in 1..Len(pixels) : pixels[i] # 0 /\ pixels[i] # Red

\* C3: once render has been called in an iteration, the centre index is inside
\* the buffer and holds 0xFF0000.
CenterPixelRed ==
    (window = "open" /\ iter.renders > 0) =>
        /\ CenterInBounds(pixels, dimensions)
        /\ pixels[CenterIndex(dimensions) + 1] = Red

\* C4: once render has been called after a resize, the buffer has exactly
\* width * height slots; when it returns, each slot holds what this render
\* computes for it, whatever the buffer held before; and the buffer handed to
\* update_with_buffer has the length width * height of the size passed with it.
ResizedAndRewritten ==
    /\ (window = "open" /\ iter.renders > 0) =>
          Len(pixels) = dimensions[1] * dimensions[2]
    /\ pc = "present" =>
          \A i \in 1..Len(pixels) :
             pixels[i] = IF i - 1 = CenterIndex(dimensions) THEN Red
                         ELSE PixelValue(fract, i - 1, dimensions, pan, scale)
    /\ presented.len = presented.width * presented.height

\* C4 witness: a frame of a shrunk window has been rendered and presented.
ResizedAndRewrittenWitness ==
    /\ pc = "loop"
    /\ iter.renders = 1
    /\ 0 < Len(pixels)
    /\ Len(pixels) < WIDTH * HEIGHT
    /\ presented = Presentation(pixels, dimensions)

RenderOnlyWhenChanged ==
    [][/\ (HandleInputWith(dimensions, {}) /\ ~updated) =>
              (UNCHANGED ctxVars /\ ~iter'.mutated /\ ~iter'.dirtyIn)
       /\ (pc = "dispatch" /\ ~iter.mutated /\ ~iter.dirtyIn) =>
              (pc' = "loop" /\ UNCHANGED ctxVars /\ iter'.renders = 0)
       /\ (pc = "loop" /\ pc' = "dispatch" /\ View' # View) =>
              (updated' /\ iter'.mutated /\ iter'.renders = 0)
       /\ (pc = "dispatch" /\ iter.mutated) =>
              (updated /\ pc' \in {"present", "panicked"} /\ iter'.renders = 1
                 /\ View' = View)
       /\ pc' = "loop" =>
              (iter'.renders = IF iter.mutated \/ iter.dirtyIn THEN 1 ELSE 0)]_vars

\* C6 witness: an iteration without input has ended, after earlier iterations
\* that handled input and rendered.
RenderOnlyWhenChangedWitness ==
    /\ pc = "loop"
    /\ events > 0
    /\ ~iter.mutated
    /\ ~iter.dirtyIn
    /\ iter.renders = 0
    /\ presented # NoPresentation

\* C7: an iteration count of 0 is rejected: no Fractal with max_iterations = 0
\* is built, no window is created, no render runs.
ZeroIterationsRejected ==
    fract.max = 0 => (fract.kind = "none" /\ window = "none" /\ iter.renders = 0)

\* C8: in every state the zoom handlers reach from scale = 100, a zoom-in
\* would strictly increase scale, a zoom-out would strictly decrease it, and
\* scale is above 0.
ZoomMonotonic ==
    window = "open" =>
        /\ FLt(scale, ZoomIn(scale))
        /\ FLt(ZoomOut(scale), scale)
        /\ FGt(scale, Zero)

\* C9: for max_iterations >= 1 the counter escaped stays within
\* 0..max_iterations, the intensity within 0..255, and the stored pixel has
\* three equal colour bytes and fits 24 bits.
EscapedInRange ==
    (pc = "kernel" /\ fract.max >= 1) =>
        /\ kern.escaped \in 0..fract.max
        /\ kern.stored =>
              /\ Intensity(kern.escaped, fract.max) \in 0..255
              /\ kern.value < 256 * 65536
              /\ kern.value % 256 = (kern.value \div 256) % 256
              /\ kern.value % 256 = (kern.value \div 65536) % 256
              /\ \A i \in 1..Len(pixels) : writes[i] = 1 => pixels[i] = kern.value

\* C9 witness: a pixel that escaped in some but not all iterations is stored.
EscapedInRangeWitness ==
    /\ pc = "kernel"
    /\ kern.stored
    /\ 0 < kern.escaped
    /\ kern.escaped < fract.max
    /\ kern.value > 0

\* C10: the loop runs max_iterations times, and escaped is max_iterations -
\* k + 1 when iteration k is the first whose z has norm_sqr() > 4, 0 if none is.
EscapedCountsFromFirst ==
    (pc = "kernel" /\ kern.stored) =>
        /\ kern.n = fract.max
        /\ kern.escaped = IF kern.first = 0 THEN 0 ELSE fract.max - kern.first + 1

=============================================================================
